---- MODULE Spec2Model ----
(***************************************************************************)
(* A model of the jump table resolver (JumpTableResolver.resolve and its   *)
(* two memory-read hooks) and of the Slicecutor surveyor.                  *)
(*                                                                         *)
(*   SpecResolve  : calls of resolve() against a registry of indirect jump *)
(*                  records, one step per phase of the handler             *)
(*   SpecLocator  : the load statement locator on a wide family of slices  *)
(*   SpecHooks    : memory reads and stores of a replay, passing the two    *)
(*                  mem_read hooks                                         *)
(*   SpecSlicecutor : construction of a Slicecutor and the ticks of its    *)
(*                  paths under a guide (the annotated CFG)                *)
(*   SpecReplay   : the run of a Slicecutor, ticked for as long as it has   *)
(*                  active paths, each path kept as its last exits         *)
(*   SpecConcurrent : two resolutions whose materialization hooks run      *)
(*                  interleaved on the one counter                         *)
(***************************************************************************)
EXTENDS Integers, Sequences, FiniteSets, TLC

VARIABLES
    prog,              \* the program under analysis: slice of the jump, architecture
    limit,             \* cfg._indirect_jump_target_limit
    envRun,            \* what the executor does from each slice entry point (fixed once seen)
    envCand,           \* what each reached-target candidate yields (fixed once seen)
    indirect_jumps,    \* cfg.indirect_jumps : jump address -> Indirect Jump Record
    uninit_read_base,  \* UninitReadMeta.uninit_read_base
    max_targets,       \* JumpTableResolver._max_targets
    pc,                \* position of the running resolve() call
    frame,             \* locals of the running resolve() call
    ret,               \* value returned by the last finished call
    hist,              \* finished calls, oldest first
    hstate,            \* the symbolic state the two mem_read hooks are run on
    hlog,              \* the memory operations on hstate, oldest first
    annotated_cfg,     \* Slicecutor._annotated_cfg, the guide
    project,           \* Slicecutor._project: the exits of every block
    slicecutor,        \* the Slicecutor: its path lists, and the last tick
    hook_threads       \* two resolutions inside _init_registers_on_demand, and a clock

vars == <<prog, limit, envRun, envCand, indirect_jumps, uninit_read_base,
          max_targets, pc, frame, ret, hist, hstate, hlog,
          annotated_cfg, project, slicecutor, hook_threads>>

rvars == <<prog, limit, envRun, envCand, indirect_jumps, uninit_read_base,
           max_targets, pc, frame, ret, hist>>
hvars == <<hstate, hlog>>
svars == <<annotated_cfg, project, slicecutor>>
cvars == <<hook_threads>>

-----------------------------------------------------------------------------
(* Bounds *)

MaxLoc == 3        \* statement locations of a slice are 0..MaxLoc
MaxReached == 2    \* reached-target candidates an executor returns
MaxCalls == 2      \* calls of resolve() in one behaviour
SmallLimit == 3    \* the smaller of the two target limits that are tried
MaxMat == 1        \* reads through an uninitialized register in one replay
MaxHookOps == 3    \* memory operations on the state the hooks are run on
MaxPathLen == 3    \* exits a path executes before it is left alone
MaxThreadMats == 2 \* materializations of one resolution that runs beside another

(* Program constants *)

UninitReadBase0 == 201326592      \* 0xc000000
MaxUninitReadLen == 16

None == "None"

Min(a, b) == IF a <= b THEN a ELSE b

-----------------------------------------------------------------------------
(* Values of the symbolic engine, as far as the resolver looks at them *)

IntV(n) == [k |-> "int", v |-> n]
UninitV(r) == [k |-> "uninit", v |-> r]

\* a strided interval: the value set abstraction of the load address
SI(lower, stride, n) == [lower |-> lower, upper |-> lower + stride * (n - 1), stride |-> stride]

\* jump_addr._model_vsa.cardinality
VsaCardinality(si) == ((si.upper - si.lower) \div si.stride) + 1

\* state.se.any_n_int(jump_addr, n)
AnyNInt(si, n) == [i \in 1..Min(n, VsaCardinality(si)) |-> si.lower + (i - 1) * si.stride]

\* state.se.min(jump_addr)
SeMin(si) == si.lower

\* the value set of an uninitialized expression: every value (up to TLC's integers)
Top == [lower |-> 0, upper |-> 2147483646, stride |-> 1]

-----------------------------------------------------------------------------
(* The architecture and the memory image *)

Archs == { [bits |-> 64, memory_endness |-> "Iend_LE", initial_sp |-> 2147418112],
           [bits |-> 32, memory_endness |-> "Iend_BE", initial_sp |-> 2147418112] }

\* state.arch.bits / 8
WordBytes(arch) == arch.bits \div 8

TableBase == 4210688             \* 0x404000
TableEntry(i) == 4198656 + 256 * i   \* 0x401100, 0x401200, ...

\* the image holds, from TableBase on, the 8-byte little-endian words TableEntry(0),
\* TableEntry(1), ...; no other address is mapped
ImageMapped(a) == a >= TableBase /\ a < TableBase + 8 * 8
\* byte j of the number v, byte 0 the least significant
RECURSIVE ByteOf(_, _)
ByteOf(v, j) == IF j = 0 THEN v % 256 ELSE ByteOf(v \div 256, j - 1)

ImageByte(a) ==
    IF ImageMapped(a)
    THEN ByteOf(TableEntry((a - TableBase) \div 8), (a - TableBase) % 8)
    ELSE 0

-----------------------------------------------------------------------------
(* A symbolic state: registers, the bytes written so far, and the pending read *)

\* register 0 is bp; the k-th read through an uninitialized register uses register k
Regs == 0..(MaxMat + 1)

\* self.project.factory.blank_state(...): nothing written, every register uninitialized
BlankState ==
    [regs |-> [r \in Regs |-> UninitV(r)],
     mem |-> <<>>,
     fresh |-> 0,
     read_addr |-> IntV(0),
     read_length |-> IntV(0)]

\* state.memory.was_written_to(addr)
WasWrittenTo(state, a) == a \in DOMAIN state.mem

\* one byte of an Unconstrained value / of a concrete value the program stored
UncByte(id, idx) == [k |-> "unc", id |-> id, idx |-> idx]
ConByte(b) == [k |-> "con", id |-> b, idx |-> 0]

\* the stores of the hook's loop: for i in xrange(0, length, word): store(addr + i, Unconstrained)
StoreUnconstrainedSpan(state, addr, length, word) ==
    LET nwords == (length + word - 1) \div word
        span == addr .. (addr + nwords * word - 1)
    IN [state EXCEPT
          !.mem = [a \in (DOMAIN state.mem) \cup span |->
                     IF a \in span
                     THEN UncByte(state.fresh + ((a - addr) \div word), (a - addr) % word)
                     ELSE state.mem[a]],
          !.fresh = state.fresh + nwords]

\* start <= concrete_read_addr < start + size for some region
InBssRegions(bss_regions, a) ==
    \E i \in 1..Len(bss_regions) :
        bss_regions[i][1] <= a /\ a < bss_regions[i][1] + bss_regions[i][2]

\* JumpTableResolver._bss_memory_read_hook; concrete_read_length is
\* state.se.any_int(read_length)
BssMemoryReadHook(bss_regions, arch, state, concrete_read_length) ==
    IF bss_regions = <<>> THEN state
    ELSE IF state.read_addr.k # "int" THEN state
    ELSE IF ~InBssRegions(bss_regions, state.read_addr.v) THEN state
    ELSE IF WasWrittenTo(state, state.read_addr.v) THEN state
    ELSE StoreUnconstrainedSpan(state, state.read_addr.v, concrete_read_length,
                                WordBytes(arch))

\* state.registers.replace_all(old, new)
ReplaceAll(regs, old, new) == [r \in DOMAIN regs |-> IF regs[r] = old THEN new ELSE regs[r]]

\* mutant: the counter is not advanced
AdvanceBase_Mut(base, read_length) == base

\* mutant: the placeholder is always the first one
NewReadAddr_Mut(base) == IntV(UninitReadBase0)

\* the placeholder address the hook hands out
NewReadAddr(base) == IntV(base)
\* UninitReadMeta.uninit_read_base += read_length
AdvanceBase(base, read_length) == base + read_length

\* mutant: the address is replaced whether it is uninitialized or not
InitRegistersOnDemand_Mut(state, base) ==
    IF state.read_length.v > MaxUninitReadLen THEN [state |-> state, base |-> base]
    ELSE [state |-> [state EXCEPT
                       !.regs = ReplaceAll(state.regs, state.read_addr, NewReadAddr(base)),
                       !.read_addr = NewReadAddr(base)],
          base |-> AdvanceBase(base, state.read_length.v)]

\* JumpTableResolver._init_registers_on_demand; a symbolic read_length counts with
\* its upper bound
InitRegistersOnDemand(state, base) ==
    IF state.read_addr.k # "uninit" THEN [state |-> state, base |-> base]
    ELSE IF state.read_length.v > MaxUninitReadLen THEN [state |-> state, base |-> base]
    ELSE [state |-> [state EXCEPT
                       !.regs = ReplaceAll(state.regs, state.read_addr, NewReadAddr(base)),
                       !.read_addr = NewReadAddr(base)],
          base |-> AdvanceBase(base, state.read_length.v)]

\* the two BP_BEFORE breakpoints on mem_read in the order resolve() adds them
\* (lines 126-133): the .bss hook, then the materialization hook
BssThenInit(bss_regions, arch, pending, n, base) ==
    InitRegistersOnDemand(BssMemoryReadHook(bss_regions, arch, pending, n), base)

\* the two hooks in the opposite order
InitThenBss(bss_regions, arch, pending, n, base) ==
    LET r == InitRegistersOnDemand(pending, base)
    IN [state |-> BssMemoryReadHook(bss_regions, arch, r.state, n), base |-> r.base]

\* state.memory.load of one byte: what was written, else the image
MemByte(state, a) ==
    IF WasWrittenTo(state, a)
    THEN (IF state.mem[a].k = "con" THEN state.mem[a].id ELSE 0)
    ELSE ImageByte(a)

\* state.se.any_int(state.memory.load(a, size, endness=...)): the bytes at a read
\* as one number in the given byte order
RECURSIVE LoadBE(_, _, _)
LoadBE(state, a, size) ==
    IF size = 0 THEN 0
    ELSE LoadBE(state, a, size - 1) * 256 + MemByte(state, a + size - 1)

RECURSIVE LoadLE(_, _, _)
LoadLE(state, a, size) ==
    IF size = 0 THEN 0
    ELSE MemByte(state, a) + 256 * LoadLE(state, a + 1, size - 1)

\* mutant: the byte order of the architecture is ignored
MemoryLoad_Mut(state, a, size, endness) == LoadLE(state, a, size)

MemoryLoad(state, a, size, endness) ==
    IF endness = "Iend_LE" THEN LoadLE(state, a, size) ELSE LoadBE(state, a, size)

-----------------------------------------------------------------------------
(* The slice of the jump: a directed graph over statement locations.        *)
(* Location 0 is the jump's own, (addr, 'default'); stmt[n] is the decoded  *)
(* statement at location n, as far as the locator looks at it.              *)

Locs == 0..MaxLoc
JumpLoc == 0

Stmts == { [tag |-> "WrTmp", data |-> "Get"],
           [tag |-> "WrTmp", data |-> "RdTmp"],
           [tag |-> "Put",   data |-> "RdTmp"],
           [tag |-> "WrTmp", data |-> "Load"],
           [tag |-> "WrTmp", data |-> "Binop"],
           [tag |-> "Store", data |-> "RdTmp"] }

\* mutant: only a write to a temp counts as a data transfer
IsDataTransfer_Mut(s) == s.tag = "WrTmp" /\ s.data \in {"Get", "RdTmp"}

\* isinstance(stmt, (WrTmp, Put)) and isinstance(stmt.data, (Get, RdTmp))
IsDataTransfer(s) == s.tag \in {"WrTmp", "Put"} /\ s.data \in {"Get", "RdTmp"}
\* mutant: any statement that is no data transfer ends the walk as the load
IsLoad_Mut(s) == s.tag \in {"WrTmp", "Put"} /\ s.data \in {"Load", "Binop"}

\* isinstance(stmt, (WrTmp, Put)) and isinstance(stmt.data, Load)
IsLoad(s) == s.tag \in {"WrTmp", "Put"} /\ s.data = "Load"

\* b.slice.predecessors(stmt_loc)
Predecessors(slice, n) == slice.preds[n] \cap slice.nodes

\* the while loop of resolve: from stmt_loc, with stmts_to_remove so far. A walk of
\* more than MaxLoc + 1 hops has been at some location twice, and as each hop depends
\* on the location alone it never ends.
RECURSIVE Walk(_, _, _, _)
Walk(slice, stmt_loc, stmts_to_remove, hops) ==
    LET preds == Predecessors(slice, stmt_loc) IN
    IF hops > MaxLoc + 1
    THEN [status |-> "diverges", load_stmt_loc |-> -1, stmts_to_remove |-> stmts_to_remove]
    ELSE IF Cardinality(preds) # 1
    THEN [status |-> "BranchingDependency", load_stmt_loc |-> -1,
          stmts_to_remove |-> stmts_to_remove]
    ELSE LET p == CHOOSE x \in preds : TRUE IN
         IF IsDataTransfer(slice.stmt[p])
         THEN Walk(slice, p, Append(stmts_to_remove, p), hops + 1)
         ELSE IF IsLoad(slice.stmt[p])
         THEN [status |-> "found", load_stmt_loc |-> p,
               stmts_to_remove |-> Append(stmts_to_remove, p)]
         ELSE [status |-> "LoadNotFound", load_stmt_loc |-> -1,
               stmts_to_remove |-> stmts_to_remove]

\* lines 75-103: the membership test and the walk
Locate(slice) ==
    IF JumpLoc \notin slice.nodes
    THEN [status |-> "StatementNotInSlice", load_stmt_loc |-> -1, stmts_to_remove |-> <<>>]
    ELSE Walk(slice, JumpLoc, <<JumpLoc>>, 0)

Range(seq) == { seq[i] : i \in 1..Len(seq) }

\* b.slice.remove_nodes_from(stmts_to_remove)
RemoveNodesFrom(slice, stmts_to_remove) ==
    [slice EXCEPT !.nodes = slice.nodes \ Range(stmts_to_remove)]

\* a set of numbers as the sequence of its elements in ascending order
RECURSIVE Ascending(_)
Ascending(S) ==
    IF S = {} THEN <<>>
    ELSE LET m == CHOOSE x \in S : \A y \in S : x <= y
         IN <<m>> \o Ascending(S \ {m})

\* sources = [n for n in b.slice.nodes() if b.slice.in_degree(n) == 0]
Sources(slice) == Ascending({ n \in slice.nodes : Predecessors(slice, n) = {} })

\* The slices the locator is tried on: location n depends on nothing, on n+1, on
\* n+1 and n+2, or (a cycle) on location 1
PredChoice(n, c) ==
    \/ c = 0
    \/ c = 1 /\ n + 1 <= MaxLoc
    \/ c = 2 /\ n + 2 <= MaxLoc
    \/ c = 3 /\ n >= 1

EmptySlice ==
    [nodes |-> {}, preds |-> [n \in Locs |-> {}], stmt |-> [n \in Locs |-> [tag |-> "WrTmp", data |-> "Get"]]]

Slices(locs) ==
    {EmptySlice} \cup
    { [nodes |-> locs, preds |-> p, stmt |-> [n \in locs |-> IF n = JumpLoc THEN [tag |-> "WrTmp", data |-> "Get"] ELSE st[n]]] :
        p \in { [n \in locs |-> IF c[n] = 0 THEN {}
                                ELSE IF c[n] = 1 THEN {n + 1}
                                ELSE IF c[n] = 2 THEN {n + 1, n + 2}
                                ELSE {1}] :
                  c \in { d \in [locs -> 0..3] : \A n \in locs : PredChoice(n, d[n]) } },
        st \in [locs \ {JumpLoc} -> Stmts] }

\* The slices resolve() is run on: the jump, ncopy data transfers, then the statement
\* last; every location behind it is an entry point that feeds it
ChainSlice(ncopy, last) ==
    [nodes |-> Locs,
     preds |-> [n \in Locs |-> IF n <= ncopy THEN {n + 1}
                               ELSE IF n = ncopy + 1 THEN (ncopy + 2)..MaxLoc
                               ELSE {}],
     stmt |-> [n \in Locs |-> IF n <= ncopy THEN [tag |-> "WrTmp", data |-> "RdTmp"]
                              ELSE IF n = ncopy + 1 THEN last
                              ELSE [tag |-> "WrTmp", data |-> "Get"]]]

ResolveSlices ==
    {EmptySlice, [EmptySlice EXCEPT !.nodes = Locs]} \cup
    { ChainSlice(nc, last) : nc \in 0..(MaxLoc - 1),
                             last \in { [tag |-> "WrTmp", data |-> "Load"],
                                        [tag |-> "WrTmp", data |-> "Binop"] } }

-----------------------------------------------------------------------------
(* resolve(): the registry, the environment and the call frame *)

JumpAddrs == {4198432, 4198496}      \* 0x401020, 0x401060

\* an IndirectJump the CFG has found and nobody has resolved
NewIndirectJump ==
    [jumptable |-> FALSE, jumptable_addr |-> -1, jumptable_targets |-> <<>>,
     jumptable_entries |-> -1]

Limits == {SmallLimit, 16}
Cards == {SmallLimit, SmallLimit + 1, 32}

\* what slicecutor.run() does from one entry point: a KeyError, or mats reads through
\* an uninitialized register and nReached paths at the load's block
UnsetRun == [k |-> "unset", mats |-> 0, nReached |-> 0]
RunAnswers ==
    { [k |-> "KeyError", mats |-> 0, nReached |-> 0] } \cup
    { [k |-> "ran", mats |-> m, nReached |-> n] : m \in 0..MaxMat, n \in 0..MaxReached }

\* what one reached-target path yields: nStates successor states, and whether the
\* first binds the load's address temp, to a table in the image (base "const") or to
\* an address behind register 1 (base "reg")
UnsetCand == [k |-> "unset", nStates |-> 0, hasTmp |-> FALSE, base |-> "none", n |-> 0]
CandAnswers ==
    { [k |-> "set", nStates |-> 0, hasTmp |-> FALSE, base |-> "none", n |-> 0] } \cup
    { [k |-> "set", nStates |-> s, hasTmp |-> FALSE, base |-> "none", n |-> 0] : s \in 1..2 } \cup
    { [k |-> "set", nStates |-> s, hasTmp |-> TRUE, base |-> "const", n |-> c] :
        s \in 1..2, c \in Cards } \cup
    { [k |-> "set", nStates |-> s, hasTmp |-> TRUE, base |-> "reg", n |-> SmallLimit] : s \in 1..2 }

AbsentRet == [resolved |-> FALSE, absent |-> TRUE, targets |-> <<>>]
NoValue == [lower |-> 0, upper |-> -1, stride |-> 1]

EmptyFrame ==
    [addr |-> 0, jumpkind |-> None, before |-> <<>>, base_before |-> 0,
     load_stmt_loc |-> -1, stmts_to_remove |-> <<>>, sources |-> <<>>, srcIdx |-> 0,
     nReached |-> 0, candIdx |-> 0, state |-> BlankState, executors |-> 0,
     jump_addr |-> NoValue, total_cases |-> -1, trail |-> <<>>]

\* what has become of entry point src (cand = 0) or of its cand-th reached-target
\* path, noted in the order it happens
Noted(f, src, cand, what) ==
    [f EXCEPT !.trail = Append(@, [src |-> src, cand |-> cand, what |-> what])]

\* return r: the call is over and recorded
Return(f, r, outcome) ==
    /\ ret' = r
    /\ pc' = "idle"
    /\ frame' = EmptyFrame
    /\ hist' = Append(hist,
          [addr |-> f.addr, jumpkind |-> f.jumpkind, limit |-> limit,
           before |-> f.before, after |-> indirect_jumps', ret |-> r,
           outcome |-> outcome, load_stmt_loc |-> f.load_stmt_loc,
           stmts_to_remove |-> f.stmts_to_remove, executors |-> f.executors,
           jump_addr |-> f.jump_addr, total_cases |-> f.total_cases,
           sources |-> f.sources, trail |-> f.trail,
           base_before |-> f.base_before, base_after |-> uninit_read_base'])

\* lines 64-118: the jump kind, the slice, the locator, the trimmed slice's sources
Resolve_Begin(addr, jumpkind) ==
    /\ pc = "idle"
    /\ Len(hist) < MaxCalls
    /\ UNCHANGED <<prog, limit, envRun, envCand, indirect_jumps, uninit_read_base>>
    /\ LET f0 == [EmptyFrame EXCEPT !.addr = addr, !.jumpkind = jumpkind,
                                    !.before = indirect_jumps,
                                    !.base_before = uninit_read_base]
       IN IF jumpkind # "Ijk_Boring"
          THEN /\ UNCHANGED max_targets
               /\ Return(f0, AbsentRet, "UnsupportedJumpKind")
          ELSE /\ max_targets' = limit
               /\ LET loc == Locate(prog.slice)
                      f1 == [f0 EXCEPT !.load_stmt_loc = loc.load_stmt_loc,
                                       !.stmts_to_remove = loc.stmts_to_remove]
                      sources == Sources(RemoveNodesFrom(prog.slice, loc.stmts_to_remove))
                  IN IF loc.status = "diverges"
                     THEN /\ pc' = "hung"
                          /\ frame' = f1
                          /\ UNCHANGED <<ret, hist>>
                     ELSE IF loc.status # "found"
                     THEN Return(f1, AbsentRet, loc.status)
                     ELSE IF sources = <<>>
                     THEN Return(f1, AbsentRet, "Exhausted")
                     ELSE /\ pc' = "source"
                          /\ frame' = [f1 EXCEPT !.sources = sources, !.srcIdx = 1]
                          /\ UNCHANGED <<ret, hist>>

\* mutant: the first entry point that fails ends the call
NextSource_Mut(f) == Return(f, AbsentRet, "Exhausted")

\* the for loop over sources moves on, or falls through to line 202
NextSource(f) ==
    IF f.srcIdx < Len(f.sources)
    THEN /\ pc' = "source"
         /\ frame' = [f EXCEPT !.srcIdx = @ + 1, !.nReached = 0, !.candIdx = 0,
                               !.state = BlankState]
         /\ UNCHANGED <<ret, hist>>
    ELSE Return(f, AbsentRet, "Exhausted")

\* the for loop over slicecutor.reached_targets moves on
NextCandidate(f) ==
    IF f.candIdx < f.nReached
    THEN /\ pc' = "cand"
         /\ frame' = [f EXCEPT !.candIdx = @ + 1]
         /\ UNCHANGED <<ret, hist>>
    ELSE NextSource(f)

\* lines 123-133: the start state of one entry point
InitialState(arch) ==
    [BlankState EXCEPT !.regs[0] = IntV(arch.initial_sp + 8192)]

\* the replay's reads through uninitialized registers, each passing both mem_read
\* breakpoints in the order they were added
RECURSIVE Replay(_, _, _, _)
Replay(p, state, base, mats) ==
    IF mats = 0 THEN [state |-> state, base |-> base]
    ELSE LET before == Replay(p, state, base, mats - 1)
             pending == [before.state EXCEPT !.read_addr = before.state.regs[mats],
                                            !.read_length = IntV(WordBytes(p.arch))]
             hooked == BssMemoryReadHook(p.bss_regions, p.arch, pending, WordBytes(p.arch))
         IN InitRegistersOnDemand(hooked, before.base)

\* lines 120-147: one entry point: its start state, the hooks, the executor's run
Resolve_Source ==
    /\ pc = "source"
    /\ UNCHANGED <<prog, limit, envCand, indirect_jumps, max_targets>>
    /\ LET b == frame.sources[frame.srcIdx] IN
       \E ans \in RunAnswers :
          /\ envRun[b] = UnsetRun \/ envRun[b] = ans
          /\ envRun' = [envRun EXCEPT ![b] = ans]
          /\ LET run == Replay(prog, InitialState(prog.arch), uninit_read_base, ans.mats)
                 f1 == [frame EXCEPT !.executors = @ + 1]
             IN /\ uninit_read_base' = run.base
                /\ IF ans.k = "KeyError" \/ ans.nReached = 0
                   THEN NextSource(Noted(f1, b, 0, IF ans.k = "KeyError"
                                                   THEN "IncompleteSliceReplay"
                                                   ELSE "NoReachedTarget"))
                   ELSE /\ pc' = "cand"
                        /\ frame' = [f1 EXCEPT !.state = run.state,
                                               !.nReached = ans.nReached, !.candIdx = 1]
                        /\ UNCHANGED <<ret, hist>>

\* succ.flat_successors + succ.unconstrained_successors of a reached-target path:
\* the first state is as the answer says; a second state binds the load's address
\* temp to the table one word further on
AllStates(ans) ==
    [i \in 1..ans.nStates |->
        IF i = 1 THEN [hasTmp |-> ans.hasTmp, base |-> ans.base, n |-> ans.n, skip |-> 0]
        ELSE [hasTmp |-> TRUE, base |-> "const", n |-> SmallLimit, skip |-> 1]]

\* mutant: the last state is taken
TakenState_Mut(all_states) == all_states[Len(all_states)]

\* line 157: state = all_states[0]
TakenState(all_states) == all_states[1]

\* state.scratch.temps[load_addr_tmp] in the first successor state
LoadAddrValue(arch, state, ans) ==
    IF ans.base = "const"
    THEN SI(TableBase + ans.skip * WordBytes(arch), WordBytes(arch), ans.n)
    ELSE IF state.regs[1].k = "int"
    THEN SI(state.regs[1].v + WordBytes(arch), WordBytes(arch), ans.n)
    ELSE Top

\* mutant: the cap is off by one
TooManyTargets_Mut(total_cases, max) == total_cases > max + 1

\* total_cases > self._max_targets
TooManyTargets(total_cases, max) == total_cases > max

\* lines 183-189: the word at every concrete load address, in enumeration order
JumpTable(arch, state, jump_addr, total_cases) ==
    LET as == AnyNInt(jump_addr, total_cases)
    IN [i \in 1..Len(as) |-> MemoryLoad(state, as[i], WordBytes(arch), arch.memory_endness)]

\* mutant: the entry count is taken one short
WriteIndirectJump_Mut(ij, state, jump_addr, jump_table, total_cases) ==
    [ij EXCEPT !.jumptable = TRUE,
               !.jumptable_addr = SeMin(jump_addr),
               !.jumptable_targets = jump_table,
               !.jumptable_entries = total_cases - 1]

\* lines 194-198
WriteIndirectJump(ij, state, jump_addr, jump_table, total_cases) ==
    [ij EXCEPT !.jumptable = TRUE,
               !.jumptable_addr = SeMin(jump_addr),
               !.jumptable_targets = jump_table,
               !.jumptable_entries = total_cases]

\* mutant: every record of the registry is written
IndirectJumpsAfter_Mut(ijs, addr, state, jump_addr, jump_table, total_cases) ==
    [a \in DOMAIN ijs |-> WriteIndirectJump(ijs[a], state, jump_addr, jump_table, total_cases)]

\* ij = cfg.indirect_jumps[addr] and the four assignments to it
IndirectJumpsAfter(ijs, addr, state, jump_addr, jump_table, total_cases) ==
    [ijs EXCEPT ![addr] = WriteIndirectJump(@, state, jump_addr, jump_table, total_cases)]

\* lines 150-200: one reached-target path
Resolve_Candidate ==
    /\ pc = "cand"
    /\ UNCHANGED <<prog, limit, envRun, uninit_read_base, max_targets>>
    /\ LET key == <<frame.sources[frame.srcIdx], frame.candIdx>> IN
       \E ans \in CandAnswers :
          /\ envCand[key] = UnsetCand \/ envCand[key] = ans
          /\ envCand' = [envCand EXCEPT ![key] = ans]
          /\ LET all_states == AllStates(ans) IN
             IF all_states = <<>>
             THEN /\ UNCHANGED indirect_jumps
                  /\ NextCandidate(Noted(frame, key[1], key[2], "NoSuccessorState"))
             ELSE IF ~TakenState(all_states).hasTmp
             THEN /\ UNCHANGED indirect_jumps
                  /\ NextCandidate(Noted(frame, key[1], key[2], "TempAbsent"))
             ELSE LET state == frame.state
                      jump_addr == LoadAddrValue(prog.arch, state, TakenState(all_states))
                      total_cases == VsaCardinality(jump_addr)
                      f1 == [frame EXCEPT !.jump_addr = jump_addr,
                                          !.total_cases = total_cases]
                  IN IF TooManyTargets(total_cases, max_targets)
                     THEN /\ UNCHANGED indirect_jumps
                          /\ Return(Noted(f1, key[1], key[2], "TooManyTargets"),
                                    AbsentRet, "TooManyTargets")
                     ELSE LET all_targets == JumpTable(prog.arch, state, jump_addr, total_cases)
                          IN /\ indirect_jumps' =
                                   IndirectJumpsAfter(indirect_jumps, frame.addr, state,
                                                      jump_addr, all_targets, total_cases)
                             /\ Return(Noted(f1, key[1], key[2], "Resolved"),
                                       [resolved |-> TRUE, absent |-> FALSE,
                                        targets |-> all_targets], "Resolved")

\* the CFG's target limit is set anew between two calls
ChangeLimit ==
    /\ pc = "idle"
    /\ Len(hist) >= 1
    /\ Len(hist) < MaxCalls
    /\ limit' \in Limits \ {limit}
    /\ UNCHANGED <<prog, envRun, envCand, indirect_jumps, uninit_read_base, max_targets,
                   pc, frame, ret, hist>>

JumpKinds == {"Ijk_Boring", "Ijk_Call"}

BssRegion == <<4214784, 64>>       \* .bss at 0x405000
\* a .bss that lies where the placeholder addresses are handed out
HighBssRegion == <<UninitReadBase0, 64>>

\* the resolutions that run side by side
Threads == {1, 2}

NoThread == [pc |-> "idle", read_length |-> 0, new_read_addr |-> IntV(0), loaded |-> 0,
             began |-> 0, done |-> <<>>]

InitNoThreads == hook_threads = [clock |-> 0, of |-> [t \in Threads |-> NoThread]]

InitNoHooks ==
    /\ hstate = BlankState
    /\ hlog = <<>>

InitCommon ==
    /\ envRun = [b \in Locs |-> UnsetRun]
    /\ envCand = [key \in Locs \X (1..MaxReached) |-> UnsetCand]
    /\ indirect_jumps = [a \in JumpAddrs |-> NewIndirectJump]
    /\ uninit_read_base = UninitReadBase0
    /\ max_targets = -1
    /\ pc = "idle"
    /\ frame = EmptyFrame
    /\ ret = AbsentRet
    /\ hist = <<>>

-----------------------------------------------------------------------------
(* The Slicecutor *)

Addrs == {1, 2}                  \* block addresses
NoAddr == 0                      \* Path(project=project) has run nothing yet

\* what annotated_cfg.should_take_exit(src, dst) does: a truthy value, a falsy value,
\* or an exception
Answers == {"taken", "not_taken", "raises"}

\* annotated_cfg.get_whitelisted_statements(addr)
WhitelistedStatements(addr) == IF addr = 1 THEN {0, 2} ELSE {1}

\* annotated_cfg.get_last_statement_index(addr)
LastStatementIndex(addr) == IF addr = 1 THEN 2 ELSE 1

\* the guides: any answer for any pair of addresses, also for the pair an entry exit
\* would make with the empty Path it is continued from
AnnotatedCFGs ==
    [should_take_exit : [(Addrs \cup {NoAddr}) \X Addrs -> Answers],
     whitelist : {[a \in Addrs |-> WhitelistedStatements(a)]},
     last_stmt : {[a \in Addrs |-> LastStatementIndex(a)]}]

\* the programs: path.flat_exits(reachable=True) of a path that has last run block a
Projects == [exits : [Addrs -> SUBSET Addrs], initial_exit : {1}]

\* path.last_run.addr
LastRunAddr(path) == IF path = <<>> THEN NoAddr ELSE path[Len(path)].dst

\* mutant: the whitelist is asked for the address the path comes from
TickPathExit_Mut(cfg, p, e) ==
    LET addr == IF p = <<>> THEN e ELSE LastRunAddr(p)
    IN Append(p, [src |-> LastRunAddr(p), dst |-> e,
                  whitelist |-> cfg.whitelist[addr], last_stmt |-> cfg.last_stmt[addr]])

\* lines 71-75: the path continued through exit e, when the continuation succeeds
TickPathExit(cfg, p, e) ==
    LET addr == e
    IN Append(p, [src |-> LastRunAddr(p), dst |-> e,
                  whitelist |-> cfg.whitelist[addr], last_stmt |-> cfg.last_stmt[addr]])

\* mutant: whatever does not raise is taken
Taken_Mut(answer) == answer # "raises"

\* line 96: if taken
Taken(answer) == answer = "taken"

\* mutant: the loop over the exits ends at the first exit the guide does not know
TickPath_Mut(cfg, proj, path, fails) ==
    LET src == LastRunAddr(path)
        path_exits == Ascending(proj.exits[src])
        answer(e) == cfg.should_take_exit[<<src, e>>]
        examined == { e \in proj.exits[src] :
                        \A d \in proj.exits[src] : d < e => answer(d) # "raises" }
        continued == { e \in examined : answer(e) # "raises" /\ Taken(answer(e)) }
        succeeded == Ascending(continued \ fails)
    IN [path_exits |-> path_exits,
        mystery |-> \E e \in examined : answer(e) = "raises",
        cut |-> \E e \in examined : answer(e) # "raises" /\ ~Taken(answer(e)),
        continued |-> continued,
        new_paths |-> [i \in 1..Len(succeeded) |-> TickPathExit(cfg, path, succeeded[i])]]

\* lines 77-108 without the appends: the exits in order, the two flags, the new paths;
\* fails are the exits whose continuation yields no path
TickPath(cfg, proj, path, fails) ==
    LET src == LastRunAddr(path)
        path_exits == Ascending(proj.exits[src])
        answer(e) == cfg.should_take_exit[<<src, e>>]
        continued == { e \in proj.exits[src] : answer(e) # "raises" /\ Taken(answer(e)) }
        succeeded == Ascending(continued \ fails)
    IN [path_exits |-> path_exits,
        mystery |-> \E e \in proj.exits[src] : answer(e) = "raises",
        cut |-> \E e \in proj.exits[src] :
                    answer(e) # "raises" /\ ~Taken(answer(e)),
        continued |-> continued,
        new_paths |-> [i \in 1..Len(succeeded) |-> TickPathExit(cfg, path, succeeded[i])]]

NoTick == [path |-> <<>>, mystery |-> FALSE, cut |-> FALSE, continued |-> {},
           new_paths |-> <<>>, fails |-> {}, n |-> 0]

NoSlicecutor ==
    [status |-> "none", entries |-> <<>>, dropped |-> {}, targets |-> {}, active |-> <<>>,
     mysteries |-> <<>>, cut |-> <<>>, reached_targets |-> <<>>, deadended |-> <<>>,
     last_tick |-> NoTick]

\* entries of the constructor: start, then starts, else the project's initial exit
Entries(proj, start, starts) ==
    LET given == (IF start # NoAddr THEN <<start>> ELSE <<>>) \o
                 (IF ~starts.none THEN starts.list ELSE <<>>)
    IN IF Len(given) = 0 THEN <<proj.initial_exit>> ELSE given

\* the paths of seq that stand at none of the targets, in order
RECURSIVE NotAt(_, _)
NotAt(seq, targets) ==
    IF seq = <<>> THEN <<>>
    ELSE (IF LastRunAddr(Head(seq)) \in targets THEN <<>> ELSE <<Head(seq)>>)
         \o NotAt(Tail(seq), targets)

\* the paths of seq that stand at one of the targets, in order
RECURSIVE At(_, _)
At(seq, targets) ==
    IF seq = <<>> THEN <<>>
    ELSE (IF LastRunAddr(Head(seq)) \in targets THEN <<Head(seq)>> ELSE <<>>)
         \o At(Tail(seq), targets)

\* lines 64-68: the loop over entries; the first entry whose continuation yields None
\* makes line 66 raise
RECURSIVE CreatePaths(_, _, _)
CreatePaths(cfg, entries, fails) ==
    IF entries = <<>> THEN [raised |-> FALSE, active |-> <<>>]
    ELSE IF Head(entries) \in fails THEN [raised |-> TRUE, active |-> <<>>]
    ELSE LET rest == CreatePaths(cfg, Tail(entries), fails)
         IN [raised |-> rest.raised,
             active |-> <<TickPathExit(cfg, <<>>, Head(entries))>> \o rest.active]

\* the starts argument: None, or a list
Starts == { [none |-> TRUE, list |-> <<>>], [none |-> FALSE, list |-> <<>>],
            [none |-> FALSE, list |-> <<2>>] }

\* lines 40-69: Slicecutor(project, annotated_cfg, start, starts)
Slicecutor_Init(start, starts, targets, fails) ==
    /\ slicecutor.status = "none"
    /\ LET entries == Entries(project, start, starts)
           made == CreatePaths(annotated_cfg, entries, fails)
       IN /\ fails \subseteq Range(entries)
          /\ slicecutor' =
             [NoSlicecutor EXCEPT
                 !.status = IF made.raised THEN "raised" ELSE "constructed",
                 !.entries = entries,
                 !.dropped = fails,
                 !.targets = targets,
                 !.active = NotAt(made.active, targets),
                 !.reached_targets = At(made.active, targets)]
    /\ UNCHANGED <<annotated_cfg, project>>

\* seq without its i-th element
RemoveAt(seq, i) == SubSeq(seq, 1, i - 1) \o SubSeq(seq, i + 1, Len(seq))

\* the Slicecutor after a tick of its i-th active path: tick_path (lines 77-108),
\* and the surveyor's bookkeeping of the path and its successors
Ticked(sc, cfg, proj, i, fails) ==
    LET path == sc.active[i]
        t == TickPath(cfg, proj, path, fails)
    IN [sc EXCEPT
          !.mysteries = IF t.mystery THEN Append(@, path) ELSE @,
          !.cut = IF t.cut THEN Append(@, path) ELSE @,
          !.active = RemoveAt(@, i) \o NotAt(t.new_paths, sc.targets),
          !.reached_targets = @ \o At(t.new_paths, sc.targets),
          !.deadended = IF t.new_paths = <<>> /\ ~t.mystery /\ ~t.cut
                        THEN Append(@, path) ELSE @,
          !.last_tick = [path |-> path, mystery |-> t.mystery, cut |-> t.cut,
                         continued |-> t.continued, new_paths |-> t.new_paths,
                         fails |-> fails, n |-> sc.last_tick.n + 1]]

\* one tick of the i-th active path, as long as the path is short
Tick(i, fails) ==
    /\ slicecutor.status = "constructed"
    /\ i \in 1..Len(slicecutor.active)
    /\ Len(slicecutor.active[i]) < MaxPathLen
    /\ fails \subseteq TickPath(annotated_cfg, project, slicecutor.active[i], {}).continued
    /\ slicecutor' = Ticked(slicecutor, annotated_cfg, project, i, fails)
    /\ UNCHANGED <<annotated_cfg, project>>

InitNoSlicecutor ==
    /\ annotated_cfg = CHOOSE g \in AnnotatedCFGs : \A k \in DOMAIN g.should_take_exit :
                                                       g.should_take_exit[k] = "taken"
    /\ project = CHOOSE p \in Projects : \A a \in Addrs : p.exits[a] = {}
    /\ slicecutor = NoSlicecutor

InitSlicecutor ==
    /\ prog = [slice |-> EmptySlice, arch |-> CHOOSE a \in Archs : a.bits = 64,
               bss_regions |-> <<BssRegion>>]
    /\ limit = 16
    /\ InitCommon
    /\ InitNoThreads
    /\ InitNoHooks
    /\ annotated_cfg \in AnnotatedCFGs
    /\ project \in Projects
    /\ slicecutor = NoSlicecutor

NextSlicecutor ==
    /\ \/ \E start \in {NoAddr, 1}, starts \in Starts, targets \in {{}, {2}},
             fails \in SUBSET Addrs : Slicecutor_Init(start, starts, targets, fails)
       \/ \E i \in 1..Len(slicecutor.active), fails \in SUBSET Addrs : Tick(i, fails)
    /\ UNCHANGED <<rvars, hvars, cvars>>

SpecSlicecutor == InitSlicecutor /\ [][NextSlicecutor]_vars

-----------------------------------------------------------------------------
(* The run of a Slicecutor: ticks for as long as there is an active path. A path  *)
(* is kept as its last MaxPathLen exits, and a list of finished paths holds a     *)
(* path once, so that a run that never ends is a cycle of states.                 *)

\* the last MaxPathLen exits of a path
Window(p) ==
    IF Len(p) <= MaxPathLen THEN p ELSE SubSeq(p, Len(p) - MaxPathLen + 1, Len(p))

Windows(seq) == [k \in 1..Len(seq) |-> Window(seq[k])]

\* seq without the repetitions of its elements
RECURSIVE Once(_)
Once(seq) ==
    IF seq = <<>> THEN <<>>
    ELSE LET front == Once(SubSeq(seq, 1, Len(seq) - 1))
             last == seq[Len(seq)]
         IN IF last \in Range(front) THEN front ELSE Append(front, last)

Windowed(sc) ==
    [sc EXCEPT !.active = Windows(@),
               !.mysteries = Once(Windows(@)),
               !.cut = Once(Windows(@)),
               !.reached_targets = Once(Windows(@)),
               !.deadended = Once(Windows(@)),
               !.last_tick = [@ EXCEPT !.path = Window(@), !.new_paths = Windows(@),
                                       !.n = 1]]

\* the programs whose blocks have at most one exit: the number of active paths does
\* not grow
ChainProjects == { p \in Projects : \A a \in Addrs : Cardinality(p.exits[a]) <= 1 }

\* the guides as far as a run looks at them: it never asks about an entry exit
RunGuides ==
    { g \in AnnotatedCFGs : \A d \in Addrs : g.should_take_exit[<<NoAddr, d>>] = "taken" }

\* Surveyor.run(): one tick of the i-th active path, however long the path is
Run_Tick(i, fails) ==
    /\ slicecutor.status = "constructed"
    /\ i \in 1..Len(slicecutor.active)
    /\ fails \subseteq TickPath(annotated_cfg, project, slicecutor.active[i], {}).continued
    /\ slicecutor' = Windowed(Ticked(slicecutor, annotated_cfg, project, i, fails))
    /\ UNCHANGED <<annotated_cfg, project>>

InitReplay ==
    /\ prog = [slice |-> EmptySlice, arch |-> CHOOSE a \in Archs : a.bits = 64,
               bss_regions |-> <<BssRegion>>]
    /\ limit = 16
    /\ InitCommon
    /\ InitNoThreads
    /\ InitNoHooks
    /\ annotated_cfg \in RunGuides
    /\ project \in ChainProjects
    /\ slicecutor = NoSlicecutor

NextReplay ==
    /\ \/ \E start \in {NoAddr, 1}, starts \in Starts, targets \in {{}, {2}},
             fails \in SUBSET Addrs : Slicecutor_Init(start, starts, targets, fails)
       \/ \E i \in 1..Len(slicecutor.active), fails \in SUBSET Addrs : Run_Tick(i, fails)
    /\ UNCHANGED <<rvars, hvars, cvars>>

\* run() goes on ticking while there is an active path
SpecReplay == InitReplay /\ [][NextReplay]_vars /\ WF_vars(NextReplay)

\* the run is over: the construction has raised, or no path is active
ReplayDone ==
    \/ slicecutor.status = "raised"
    \/ slicecutor.status = "constructed" /\ slicecutor.active = <<>>

\* C15: whatever the guide and the entry points, the run of the Slicecutor comes to
\* a state with no active path.
C15_ReplayTerminates == <>ReplayDone

-----------------------------------------------------------------------------
(* Two resolutions at once: _init_registers_on_demand, statement by statement *)

\* lines 251-260 in resolution t, for a read of read_length bytes through an
\* uninitialized address: the guard, and new_read_addr taken from the counter
Mat_Begin(t, read_length) ==
    LET me == hook_threads.of[t] IN
    /\ me.pc = "idle"
    /\ Len(me.done) < MaxThreadMats
    /\ read_length <= MaxUninitReadLen
    /\ hook_threads' =
          [clock |-> hook_threads.clock + 1,
           of |-> [hook_threads.of EXCEPT ![t] =
                     [me EXCEPT !.pc = "load", !.read_length = read_length,
                                !.new_read_addr = NewReadAddr(uninit_read_base),
                                !.began = hook_threads.clock + 1]]]
    /\ UNCHANGED uninit_read_base

\* line 261, first half: the counter is loaded for the +=
Mat_Load(t) ==
    LET me == hook_threads.of[t] IN
    /\ me.pc = "load"
    /\ hook_threads' =
          [clock |-> hook_threads.clock + 1,
           of |-> [hook_threads.of EXCEPT ![t] =
                     [me EXCEPT !.pc = "store", !.loaded = uninit_read_base]]]
    /\ UNCHANGED uninit_read_base

\* line 261, second half, and lines 264-266: the sum is stored into the counter, and
\* the placeholder is put into the registers and the read address of t's own state
Mat_Store(t) ==
    LET me == hook_threads.of[t] IN
    /\ me.pc = "store"
    /\ uninit_read_base' = AdvanceBase(me.loaded, me.read_length)
    /\ hook_threads' =
          [clock |-> hook_threads.clock + 1,
           of |-> [hook_threads.of EXCEPT ![t] =
                     [me EXCEPT !.pc = "idle",
                                !.done = Append(@, [thread |-> t,
                                                    placeholder |-> me.new_read_addr.v,
                                                    length |-> me.read_length,
                                                    began |-> me.began,
                                                    ended |-> hook_threads.clock + 1])]]]

InitConcurrent ==
    /\ prog = [slice |-> EmptySlice, arch |-> CHOOSE a \in Archs : a.bits = 64,
               bss_regions |-> <<BssRegion>>]
    /\ limit = 16
    /\ InitCommon
    /\ InitNoThreads
    /\ InitNoHooks
    /\ InitNoSlicecutor

NextConcurrent ==
    /\ \/ \E t \in Threads, read_length \in {1, 8} : Mat_Begin(t, read_length)
       \/ \E t \in Threads : Mat_Load(t)
       \/ \E t \in Threads : Mat_Store(t)
    /\ UNCHANGED <<prog, limit, envRun, envCand, indirect_jumps, max_targets, pc, frame,
                   ret, hist, hvars, svars>>

SpecConcurrent == InitConcurrent /\ [][NextConcurrent]_vars

\* the finished materializations of both resolutions
Finished == UNION { Range(hook_threads.of[t].done) : t \in Threads }

Disjoint(m1, m2) ==
    \/ m1.placeholder + m1.length <= m2.placeholder
    \/ m2.placeholder + m2.length <= m1.placeholder

\* C20: as long as no two finished runs of the hook have overlapped in time, their
\* placeholder ranges do not overlap; every run hands out the value the counter had
\* when the run began. (That interleaved runs can hold the same placeholder is the
\* state C20_Witness describes.)
C20_SequentialNoCollision ==
    /\ (\A m1, m2 \in Finished : m1 # m2 => (m1.ended < m2.began \/ m2.ended < m1.began))
          => \A m1, m2 \in Finished : m1 # m2 => Disjoint(m1, m2)
    /\ \A m \in Finished : m.placeholder >= UninitReadBase0
    /\ uninit_read_base >= UninitReadBase0

\* two finished materializations of different resolutions hold the same placeholder
C20_Witness ==
    \E m1, m2 \in Finished :
        /\ m1.thread # m2.thread
        /\ m1.placeholder = m2.placeholder

InitResolve ==
    /\ prog \in [slice : ResolveSlices, arch : Archs, bss_regions : {<<BssRegion>>}]
    /\ limit \in Limits
    /\ InitCommon
    /\ InitNoThreads
    /\ InitNoHooks
    /\ InitNoSlicecutor

NextResolve ==
    /\ \/ \E addr \in JumpAddrs, jumpkind \in JumpKinds : Resolve_Begin(addr, jumpkind)
       \/ Resolve_Source
       \/ Resolve_Candidate
       \/ ChangeLimit
    /\ UNCHANGED <<hvars, svars, cvars>>

SpecResolve == InitResolve /\ [][NextResolve]_vars

InitLocator ==
    /\ prog \in [slice : Slices(Locs), arch : {CHOOSE a \in Archs : a.bits = 64},
                 bss_regions : {<<BssRegion>>}]
    /\ limit = 16
    /\ InitCommon
    /\ InitNoThreads
    /\ InitNoHooks
    /\ InitNoSlicecutor

\* one call of resolve() on each slice
NextLocator ==
    /\ \E addr \in JumpAddrs : hist = <<>> /\ Resolve_Begin(addr, "Ijk_Boring")
    /\ UNCHANGED <<hvars, svars, cvars>>

SpecLocator == InitLocator /\ [][NextLocator]_vars

-----------------------------------------------------------------------------
(* Claims about resolve() *)

Calls == { hist[i] : i \in 1..Len(hist) }
Running == pc \in {"source", "cand", "hung"}

\* C1: a call whose candidate's load address has more values than the target limit
\* returns (false, absent) and leaves the record of its jump address as it was; a
\* cardinality equal to the limit is not rejected.
C1_ConservativeCap ==
    \A h \in Calls :
        /\ (h.total_cases # -1 /\ h.total_cases > h.limit)
              => /\ h.ret = AbsentRet
                 /\ h.after[h.addr] = h.before[h.addr]
        /\ (h.total_cases # -1 /\ h.total_cases = h.limit) => h.ret.resolved

C1_Witness ==
    \E h \in Calls :
        /\ h.total_cases > h.limit
        /\ h.total_cases # -1
        /\ h.before[h.addr] # NewIndirectJump

\* C2: a call that returns (false, absent) leaves every record of the registry
\* unchanged, and so does a call that has not returned; a call that returns
\* (true, targets) has written the record of its own jump address and no other.
C2_WrittenOnSuccessOnly ==
    /\ Running => indirect_jumps = frame.before
    /\ \A h \in Calls :
          /\ ~h.ret.resolved => (h.ret = AbsentRet /\ h.after = h.before)
          /\ h.ret.resolved =>
                /\ h.after[h.addr].jumptable
                /\ h.after[h.addr].jumptable_targets = h.ret.targets
                /\ \A a \in JumpAddrs \ {h.addr} : h.after[a] = h.before[a]

C2_Witness ==
    /\ Len(hist) = 2
    /\ hist[1].ret.resolved
    /\ ~hist[2].ret.resolved
    /\ hist[2].jumpkind = "Ijk_Boring"
    /\ hist[2].addr = hist[1].addr
    /\ hist[2].after[hist[2].addr].jumptable

\* C3: after a successful call the returned list is as long as the record's
\* jumptable_entries, which is the cardinality of the load address value of that
\* call, and the record's targets are the returned list.
C3_CardinalityConsistency ==
    \A h \in Calls :
        h.ret.resolved =>
            /\ Len(h.ret.targets) = h.after[h.addr].jumptable_entries
            /\ h.after[h.addr].jumptable_entries =
                  Cardinality({ a \in h.jump_addr.lower..h.jump_addr.upper :
                                  (a - h.jump_addr.lower) % h.jump_addr.stride = 0 })
            /\ h.after[h.addr].jumptable_targets = h.ret.targets

C3_Witness ==
    \E h \in Calls : h.ret.resolved /\ Len(h.ret.targets) = SmallLimit + 1

\* C4: two calls in succession for the same jump address, with the program and the
\* limit unchanged, return the same list, and the record after the second is the
\* record after the first.
C4_Idempotence ==
    \A i \in 1..(Len(hist) - 1) :
        (/\ hist[i].addr = hist[i + 1].addr
         /\ hist[i].jumpkind = hist[i + 1].jumpkind
         /\ hist[i].limit = hist[i + 1].limit)
            => /\ hist[i + 1].ret = hist[i].ret
               /\ hist[i + 1].after[hist[i].addr] = hist[i].after[hist[i].addr]

-----------------------------------------------------------------------------
(* Claims about the loops of resolve() over entry points and candidates *)

LocalFailures == {"IncompleteSliceReplay", "NoReachedTarget", "NoSuccessorState",
                  "TempAbsent"}

\* the calls that got as far as the loop over entry points
LoopCalls == { h \in Calls : h.load_stmt_loc # -1 }

\* entry point b and all its reached-target paths have been tried and have failed
SourceExhausted(h, b) ==
    /\ envRun[b] # UnsetRun
    /\ IF envRun[b].k = "KeyError" \/ envRun[b].nReached = 0
       THEN \E i \in 1..Len(h.trail) :
               /\ h.trail[i].src = b /\ h.trail[i].cand = 0
               /\ h.trail[i].what \in {"IncompleteSliceReplay", "NoReachedTarget"}
       ELSE \A c \in 1..envRun[b].nReached :
               \E i \in 1..Len(h.trail) :
                  /\ h.trail[i].src = b /\ h.trail[i].cand = c
                  /\ h.trail[i].what \in {"NoSuccessorState", "TempAbsent"}

AllExhausted(h) == \A b \in Range(h.sources) : SourceExhausted(h, b)

\* what is tried right after e: the next reached-target path of the same entry
\* point, or, when e was the last of its entry point, the next entry point
TriedNext(h, e, n) ==
    \/ /\ n.src = e.src
       /\ e.cand >= 1
       /\ n.cand = e.cand + 1
    \/ /\ e.cand = (IF envRun[e.src].k = "KeyError" THEN 0 ELSE envRun[e.src].nReached)
       /\ \E i \in 1..(Len(h.sources) - 1) :
             h.sources[i] = e.src /\ h.sources[i + 1] = n.src
       /\ n.cand = (IF envRun[n.src].k = "KeyError" \/ envRun[n.src].nReached = 0
                    THEN 0 ELSE 1)

\* C11 as stated: a call that has reached the loop over entry points returns
\* (false, absent) only after every entry point and every reached-target path of
\* every entry point has been tried.
C11_Propagation_AsStated ==
    \A h \in LoopCalls : h.ret = AbsentRet => AllExhausted(h)

\* C11: a failure local to an entry point (incomplete-slice replay, no reached-target
\* path) or to a reached-target path (no successor state, address temp absent) is
\* followed by the next reached-target path or entry point; a call that has reached
\* the loop returns (false, absent) either after all entry points and all their
\* reached-target paths have been tried and have failed, or at once, without trying
\* the rest, when the first usable candidate has more values than the target limit.
C11_Propagation ==
    \A h \in LoopCalls :
        /\ Len(h.trail) >= 1 => h.trail[1].src = h.sources[1]
        /\ \A i \in 1..(Len(h.trail) - 1) :
              /\ h.trail[i].what \in LocalFailures
              /\ TriedNext(h, h.trail[i], h.trail[i + 1])
        /\ h.ret = AbsentRet =>
              \/ /\ h.outcome = "Exhausted"
                 /\ AllExhausted(h)
                 /\ \A i \in 1..Len(h.trail) : h.trail[i].what \in LocalFailures
              \/ /\ h.outcome = "TooManyTargets"
                 /\ h.trail[Len(h.trail)].what = "TooManyTargets"
                 /\ h.total_cases > h.limit

\* a call that fails after an incomplete-slice replay at one entry point and a
\* reached-target path without successor and one without the temp at another
C11_Witness ==
    \E h \in LoopCalls :
        /\ h.outcome = "Exhausted"
        /\ Len(h.sources) >= 2
        /\ \A w \in {"IncompleteSliceReplay", "NoSuccessorState", "TempAbsent"} :
              \E i \in 1..Len(h.trail) : h.trail[i].what = w

\* the calls that ended at a usable candidate
WonCalls == { h \in LoopCalls : h.outcome \in {"Resolved", "TooManyTargets"} }
Winner(h) == h.trail[Len(h.trail)]

\* C12: a call ends at the first candidate, in the order of entry points and of
\* reached-target paths within each, that has a successor state whose first binds
\* the load's address temp; the load address is the one bound in that first state;
\* every candidate tried before it had failed, and no later reached-target path and
\* no later entry point is ever run; on success the record holds the returned list.
C12_FirstCandidateWins ==
    \A h \in WonCalls :
        LET w == Winner(h)
            ans == envCand[<<w.src, w.cand>>]
        IN /\ w.cand >= 1
           /\ ans.nStates >= 1 /\ ans.hasTmp
           /\ ans.base = "const" => h.jump_addr = SI(TableBase, WordBytes(prog.arch), ans.n)
           /\ ans.base = "reg" => h.jump_addr.lower # TableBase + WordBytes(prog.arch)
           /\ \A i \in 1..(Len(h.trail) - 1) :
                 /\ h.trail[i].what \in LocalFailures
                 /\ TriedNext(h, h.trail[i], h.trail[i + 1])
                 /\ h.trail[i].cand >= 1 =>
                       LET a == envCand[<<h.trail[i].src, h.trail[i].cand>>]
                       IN a.nStates = 0 \/ ~a.hasTmp
           /\ h.trail[1].src = h.sources[1]
           /\ \A c \in (w.cand + 1)..MaxReached : envCand[<<w.src, c>>] = UnsetCand
           /\ \A b \in Range(h.sources) :
                 b > w.src => /\ envRun[b] = UnsetRun
                              /\ \A c \in 1..MaxReached : envCand[<<b, c>>] = UnsetCand
           /\ h.executors = Cardinality({ b \in Range(h.sources) : b <= w.src })
           /\ h.ret.resolved =>
                 /\ Len(h.ret.targets) = ans.n
                 /\ h.after[h.addr].jumptable_targets = h.ret.targets

\* a successful call whose winner is the second reached-target path of the first of
\* two entry points, with two successor states, after the first path had a
\* successor state lacking the temp and a second state
C12_Witness ==
    \E h \in WonCalls :
        /\ h.ret.resolved
        /\ Len(h.sources) >= 2
        /\ Winner(h).src = h.sources[1]
        /\ Winner(h).cand = 2
        /\ envCand[<<Winner(h).src, 2>>].nStates = 2
        /\ envCand[<<Winner(h).src, 1>>].nStates = 2

-----------------------------------------------------------------------------
(* Claims about the load statement locator *)

\* the claim's statement shapes
DataMove(s) == s \in { [tag |-> "WrTmp", data |-> "Get"],
                       [tag |-> "Put", data |-> "RdTmp"],
                       [tag |-> "WrTmp", data |-> "RdTmp"] }
MemoryLoadStmt(s) == s = [tag |-> "WrTmp", data |-> "Load"]

\* walks from the jump: sequences <<0, l1, ..., lk>> in which every location but the
\* last has the next one as its only predecessor and l1 .. l(k-1) are data moves
WalkPrefixes ==
    { w \in UNION { [1..k -> Locs] : k \in 1..(MaxLoc + 1) } :
        /\ w[1] = JumpLoc
        /\ \A i \in 1..(Len(w) - 1) : Predecessors(prog.slice, w[i]) = {w[i + 1]}
        /\ \A i \in 2..(Len(w) - 1) : DataMove(prog.slice.stmt[w[i]]) }

\* the chains of the claim: n >= 0 data moves, then a memory load
LoadChains ==
    { w \in WalkPrefixes :
        /\ JumpLoc \in prog.slice.nodes
        /\ Len(w) >= 2
        /\ MemoryLoadStmt(prog.slice.stmt[w[Len(w)]]) }

BoringCalls == { h \in Calls : h.jumpkind = "Ijk_Boring" }

\* C7: when the jump's backward chain is n >= 0 data moves followed by a memory load,
\* every hop having exactly one predecessor, the locator selects that load (and
\* marks for removal the jump, the n data moves and the load, in walk order).
C7_LocatorCorrect ==
    \A w \in LoadChains :
        /\ pc # "hung"
        /\ pc = "source" => (frame.load_stmt_loc = w[Len(w)] /\ frame.stmts_to_remove = w)
        /\ \A h \in BoringCalls : h.load_stmt_loc = w[Len(w)] /\ h.stmts_to_remove = w

C7_Witness ==
    \E w \in LoadChains :
        /\ Len(w) = 4
        /\ prog.slice.stmt[w[2]] = [tag |-> "WrTmp", data |-> "Get"]
        /\ prog.slice.stmt[w[3]] = [tag |-> "Put", data |-> "RdTmp"]
        /\ \E h \in BoringCalls : h.load_stmt_loc = w[4]

\* the walks of the claim that fail: the jump is not in the slice, or a hop has no or
\* several predecessors, or its only predecessor is neither a data move nor a load
LocatorFails ==
    \/ JumpLoc \notin prog.slice.nodes
    \/ \E w \in WalkPrefixes :
          /\ Len(w) = 1 \/ DataMove(prog.slice.stmt[w[Len(w)]])
          /\ LET preds == Predecessors(prog.slice, w[Len(w)])
             IN \/ Cardinality(preds) # 1
                \/ \E p \in preds : /\ ~DataMove(prog.slice.stmt[p])
                                    /\ ~MemoryLoadStmt(prog.slice.stmt[p])

\* C8: when the locator fails in one of these ways, resolve returns (false, absent)
\* with no executor created and no load statement selected.
C8_LocatorFailure ==
    LocatorFails =>
        /\ pc = "idle"
        /\ \A h \in BoringCalls :
              /\ h.ret = AbsentRet
              /\ h.executors = 0
              /\ h.load_stmt_loc = -1
              /\ h.outcome \in {"StatementNotInSlice", "BranchingDependency", "LoadNotFound"}

C8_Witness ==
    /\ LocatorFails
    /\ \E h \in BoringCalls : h.outcome = "LoadNotFound" /\ Len(h.stmts_to_remove) >= 2
    /\ indirect_jumps = [a \in JumpAddrs |-> NewIndirectJump]

-----------------------------------------------------------------------------
(* Claims about the target enumeration *)

\* the number that the size bytes from a on spell, most significant byte first
\* (big) or last (little)
RECURSIVE BigEndianAt(_, _)
BigEndianAt(a, size) ==
    IF size = 0 THEN 0 ELSE 256 * BigEndianAt(a, size - 1) + ImageByte(a + size - 1)

RECURSIVE LittleEndianAt(_, _)
LittleEndianAt(a, size) ==
    IF size = 0 THEN 0 ELSE ImageByte(a) + 256 * LittleEndianAt(a + 1, size - 1)

WordStoredAt(a) ==
    IF prog.arch.memory_endness = "Iend_BE"
    THEN BigEndianAt(a, prog.arch.bits \div 8)
    ELSE LittleEndianAt(a, prog.arch.bits \div 8)

ConcreteValues(si) == { a \in si.lower..si.upper : (a - si.lower) % si.stride = 0 }

\* C10: a successful call returns one entry for every concrete value of the load
\* address, in ascending order of the address, each the machine word stored there in
\* the architecture's byte order, and jumptable_addr is the least of these values.
\* For the table at 0x404000 with four entries and a limit of 16 the call returns
\* [0x401100, 0x401200, 0x401300, 0x401400], table address 0x404000, 4 entries.
C10_TargetEnumeration ==
    \A h \in Calls :
        h.ret.resolved =>
            LET vals == ConcreteValues(h.jump_addr)
                ij == h.after[h.addr]
            IN /\ Len(h.ret.targets) = Cardinality(vals)
               /\ \A a \in vals :
                     \E i \in 1..Len(h.ret.targets) :
                        /\ i = Cardinality({ b \in vals : b <= a })
                        /\ h.ret.targets[i] = WordStoredAt(a)
               /\ \A a \in vals : ij.jumptable_addr <= a
               /\ ij.jumptable_addr \in vals
               /\ (/\ prog.arch = [bits |-> 64, memory_endness |-> "Iend_LE",
                                   initial_sp |-> 2147418112]
                   /\ h.limit = 16
                   /\ h.jump_addr = [lower |-> 4210688, upper |-> 4210712, stride |-> 8])
                     => /\ h.ret.targets = <<4198656, 4198912, 4199168, 4199424>>
                        /\ ij.jumptable_addr = 4210688
                        /\ ij.jumptable_entries = 4

C10_Witness ==
    \E h \in Calls :
        /\ h.ret.resolved
        /\ h.addr = 4198432
        /\ h.limit = 16
        /\ prog.arch.bits = 64
        /\ h.ret.targets = <<4198656, 4198912, 4199168, 4199424>>

\* no location is twice in seq
NoRepeat(seq) == \A i, j \in 1..Len(seq) : seq[i] = seq[j] => i = j

\* C16: the backward walk of the locator ends on every slice, a call is never left
\* walking without end, and no list of statements to remove holds a location twice.
C16_WalkTerminates ==
    /\ pc # "hung"
    /\ NoRepeat(frame.stmts_to_remove)
    /\ \A h \in Calls : NoRepeat(h.stmts_to_remove)

-----------------------------------------------------------------------------
(* Claims about the Slicecutor *)

\* every path the Slicecutor holds in one of its lists
AllPaths ==
    Range(slicecutor.active) \cup Range(slicecutor.cut) \cup Range(slicecutor.mysteries)
        \cup Range(slicecutor.reached_targets) \cup Range(slicecutor.deadended)

\* the continuation used what the guide gives for the destination address
Restricted(e) ==
    /\ e.whitelist = annotated_cfg.whitelist[e.dst]
    /\ e.last_stmt = annotated_cfg.last_stmt[e.dst]

\* C5 as stated: every exit a path has executed, its entry exit included, is one the
\* guide answers taken for (source address, destination address), and its
\* continuation was restricted to the guide's whitelist and last statement index of
\* the destination address.
C5_GuideSoundness_AsStated ==
    \A p \in AllPaths : \A i \in 1..Len(p) :
        /\ annotated_cfg.should_take_exit[<<p[i].src, p[i].dst>>] = "taken"
        /\ Restricted(p[i])

\* C5: every exit a path has executed in a tick is one the guide answers taken for
\* (address of the block last run, destination address), so none answered not-taken
\* or unknown is continued through; the entry exit, the first of every path, is
\* continued from the empty path without the guide being asked whether to take it;
\* and every continuation, that of the entry exit included, is restricted to the
\* guide's whitelist and last statement index of the destination address.
C5_GuideSoundness ==
    \A p \in AllPaths :
        /\ Len(p) >= 1
        /\ p[1].src = NoAddr
        /\ p[1].dst \in Range(slicecutor.entries)
        /\ \A i \in 1..Len(p) : Restricted(p[i])
        /\ \A i \in 2..Len(p) :
              /\ p[i].src = p[i - 1].dst
              /\ p[i].dst \in project.exits[p[i].src]
              /\ annotated_cfg.should_take_exit[<<p[i].src, p[i].dst>>] = "taken"

\* a path that has executed two exits after its entry exit, from a block that has
\* another exit the guide does not answer taken, under a guide that would not have
\* answered taken for the entry exit
C5_Witness ==
    \E p \in AllPaths :
        /\ Len(p) = 3
        /\ p[2].dst # p[3].dst
        /\ annotated_cfg.should_take_exit[<<NoAddr, p[1].dst>>] # "taken"
        /\ \E e \in project.exits[p[2].dst] :
              annotated_cfg.should_take_exit[<<p[2].dst, e>>] # "taken"

\* C6: the five lists of the Slicecutor are pairwise disjoint, so no path is in both
\* cut and mysteries; and a tick that has put its path into cut or mysteries has
\* made no successor path.
C6_ExclusiveClassification ==
    /\ \A p \in AllPaths :
          Cardinality({ k \in {"active", "cut", "mysteries", "reached_targets",
                               "deadended"} : p \in Range(slicecutor[k]) }) = 1
    /\ (slicecutor.last_tick.cut \/ slicecutor.last_tick.mystery)
          => slicecutor.last_tick.new_paths = <<>>

\* C13: the last tick has examined every reachable exit of its path: the exits it
\* continued through are exactly those the guide answers taken, its new paths are the
\* continuations that succeeded, in the order of the exits, and are active (or at a
\* target) right after the tick; the path is marked mystery exactly when some exit
\* is unknown to the guide and cut exactly when some exit is answered not-taken; and
\* no path is in the mysteries list or in the cut list more than once.
C13_Tick ==
    LET t == slicecutor.last_tick
        src == LastRunAddr(t.path)
        exits == project.exits[src]
        answer(e) == annotated_cfg.should_take_exit[<<src, e>>]
        succeeded == Ascending({ e \in exits : answer(e) = "taken" } \ t.fails)
        Count(seq, p) == Cardinality({ k \in 1..Len(seq) : seq[k] = p })
    IN /\ t.n >= 1 =>
          /\ t.continued = { e \in exits : answer(e) = "taken" }
          /\ Len(t.new_paths) = Len(succeeded)
          /\ \A k \in 1..Len(succeeded) :
                /\ t.new_paths[k] = Append(t.path, t.new_paths[k][Len(t.path) + 1])
                /\ t.new_paths[k][Len(t.path) + 1].src = src
                /\ t.new_paths[k][Len(t.path) + 1].dst = succeeded[k]
                /\ t.new_paths[k] \in Range(slicecutor.active)
                                         \cup Range(slicecutor.reached_targets)
          /\ t.mystery <=> \E e \in exits : answer(e) = "raises"
          /\ t.cut <=> \E e \in exits : answer(e) = "not_taken"
          /\ Count(slicecutor.mysteries, t.path) = (IF t.mystery THEN 1 ELSE 0)
          /\ Count(slicecutor.cut, t.path) = (IF t.cut THEN 1 ELSE 0)
          /\ t.path \notin Range(slicecutor.active)
       /\ \A p \in AllPaths : Count(slicecutor.mysteries, p) <= 1
                              /\ Count(slicecutor.cut, p) <= 1

\* a tick of a path with two exits: the first unknown to the guide, the second
\* answered taken and continued into a new active path
C13_Witness ==
    LET t == slicecutor.last_tick
        src == LastRunAddr(t.path)
    IN /\ t.n >= 1
       /\ project.exits[src] = Addrs
       /\ annotated_cfg.should_take_exit[<<src, 1>>] = "raises"
       /\ annotated_cfg.should_take_exit[<<src, 2>>] = "taken"
       /\ Len(t.new_paths) = 1
       /\ t.new_paths[1] \in Range(slicecutor.active)

\* C14: the construction never raises; it makes one path for each entry whose
\* continuation yields a path, in the order of the entries, and none for an entry
\* whose continuation yields none.
C14_SilentDrop ==
    /\ slicecutor.status # "raised"
    /\ slicecutor.status = "constructed" /\ slicecutor.last_tick.n = 0 =>
          LET made == Range(slicecutor.active) \cup Range(slicecutor.reached_targets)
          IN /\ \A e \in Range(slicecutor.entries) \ slicecutor.dropped :
                   \E p \in made : Len(p) = 1 /\ p[1].dst = e
             /\ \A p \in made : p[1].dst \notin slicecutor.dropped

-----------------------------------------------------------------------------
(* The two mem_read hooks on one symbolic state: the memory operations of a replay *)

BssStart == BssRegion[1]

\* where the replay reads and stores: at the start of .bss, one byte before and one
\* word after it, and one byte before that word
HookAddrs(arch) == {BssStart - 1, BssStart, BssStart + WordBytes(arch) - 1,
                    BssStart + WordBytes(arch)}

\* the lengths it reads: a byte, a word, two words, and a symbolic length with an
\* upper bound of 24
HookLengths(arch) == {IntV(1), IntV(WordBytes(arch)), IntV(2 * WordBytes(arch)),
                      [k |-> "sym", v |-> 24]}

\* state.se.any_int(read_length)
AnyIntOfLength(len) == IF len.k = "int" THEN {len.v} ELSE {1, len.v}

\* the bytes a read of length n at a returns: what was written, else what the image
\* holds (zero in .bss)
ReadBytes(state, a, n) ==
    [i \in 1..n |-> IF WasWrittenTo(state, a + i - 1) THEN state.mem[a + i - 1]
                    ELSE ConByte(ImageByte(a + i - 1))]

\* state.memory.store of one concrete machine word by the replayed program
ProgramStore(state, a, word) ==
    [state EXCEPT !.mem = [x \in (DOMAIN state.mem) \cup (a..(a + word - 1)) |->
                              IF x \in a..(a + word - 1) THEN ConByte(170)
                              ELSE state.mem[x]]]

Hook_Store(a) ==
    /\ Len(hlog) < MaxHookOps
    /\ hstate' = ProgramStore(hstate, a, WordBytes(prog.arch))
    /\ hlog' = Append(hlog, [op |-> "store", addr |-> IntV(a), final |-> IntV(a),
                             length |-> WordBytes(prog.arch), result |-> <<>>,
                             fresh_before |-> hstate.fresh,
                             written_before |-> WasWrittenTo(hstate, a),
                             base_before |-> uninit_read_base,
                             base_after |-> uninit_read_base,
                             read_length |-> IntV(WordBytes(prog.arch)),
                             pre |-> hstate, post |-> hstate'])
    /\ UNCHANGED <<prog, limit, envRun, envCand, indirect_jumps, uninit_read_base,
                   max_targets, pc, frame, ret, hist>>

\* a memory read of the replay: both BP_BEFORE breakpoints in the order resolve()
\* adds them (lines 126-133), then the read itself
Hook_Read(addr, len) ==
    /\ Len(hlog) < MaxHookOps
    /\ \E n \in AnyIntOfLength(len) :
          LET pending == [hstate EXCEPT !.read_addr = addr, !.read_length = len]
              r2 == BssThenInit(prog.bss_regions, prog.arch, pending, n, uninit_read_base)
              final == r2.state.read_addr
          IN /\ hstate' = r2.state
             /\ uninit_read_base' = r2.base
             /\ hlog' = Append(hlog,
                   [op |-> "read", addr |-> addr, final |-> final, length |-> n,
                    result |-> IF final.k = "int" THEN ReadBytes(r2.state, final.v, n)
                               ELSE <<>>,
                    fresh_before |-> hstate.fresh,
                    written_before |-> addr.k = "int" /\ WasWrittenTo(hstate, addr.v),
                    base_before |-> uninit_read_base,
                    base_after |-> r2.base,
                    read_length |-> len,
                    pre |-> hstate, post |-> r2.state])
    /\ UNCHANGED <<prog, limit, envRun, envCand, indirect_jumps, max_targets, pc,
                   frame, ret, hist>>

InitHooks ==
    /\ prog \in [slice : {EmptySlice}, arch : Archs,
                 bss_regions : {<<>>, <<BssRegion>>, <<HighBssRegion>>}]
    /\ limit = 16
    /\ InitCommon
    /\ InitNoThreads
    /\ hstate = InitialState(prog.arch)
    /\ hlog = <<>>
    /\ InitNoSlicecutor

NextHooks ==
    /\ \/ \E a \in HookAddrs(prog.arch) : Hook_Store(a)
       \/ \E a \in HookAddrs(prog.arch), len \in HookLengths(prog.arch) :
             Hook_Read(IntV(a), len)
       \/ \E r \in 1..(MaxMat + 1), len \in HookLengths(prog.arch) :
             Hook_Read(hstate.regs[r], len)
       \/ \E len \in HookLengths(prog.arch) : Hook_Read([k |-> "sym", v |-> 0], len)
    /\ UNCHANGED <<svars, cvars>>

SpecHooks == InitHooks /\ [][NextHooks]_vars

\* C9: a read at a concrete .bss address that nothing has written returns bytes of
\* freshly made unconstrained values, none of them the image's zero; and every later
\* read of the same address and length, with no store of the program in between,
\* returns what that first read returned.
C9_UninitializedRegionSafety ==
    \A i \in 1..Len(hlog) :
        (/\ hlog[i].op = "read"
         /\ hlog[i].addr.k = "int"
         /\ InBssRegions(prog.bss_regions, hlog[i].addr.v)
         /\ ~hlog[i].written_before)
            => /\ \A b \in 1..hlog[i].length :
                     /\ hlog[i].result[b].k = "unc"
                     /\ hlog[i].result[b].id >= hlog[i].fresh_before
               /\ \A j \in (i + 1)..Len(hlog) :
                     (/\ hlog[j].op = "read"
                      /\ hlog[j].addr = hlog[i].addr
                      /\ hlog[j].length = hlog[i].length
                      /\ \A m \in (i + 1)..(j - 1) : hlog[m].op = "read")
                        => hlog[j].result = hlog[i].result

Reads == { i \in 1..Len(hlog) : hlog[i].op = "read" }
Stores == { i \in 1..Len(hlog) : hlog[i].op = "store" }

\* C17: after the program has stored a word in a .bss region, every later read whose
\* span covers a byte of that word returns the stored byte there.
C17_ProgramStoreKept ==
    \A i \in Stores : \A j \in Reads :
        (/\ j > i
         /\ InBssRegions(prog.bss_regions, hlog[i].addr.v)
         /\ hlog[j].final.k = "int")
            => \A x \in hlog[i].addr.v .. (hlog[i].addr.v + hlog[i].length - 1) :
                  (x >= hlog[j].final.v /\ x < hlog[j].final.v + hlog[j].length)
                     => hlog[j].result[x - hlog[j].final.v + 1] = ConByte(170)

\* the reads that pass the materialization hook with an uninitialized address, and
\* those of them the hook acts on
UninitReads == { i \in Reads : hlog[i].addr.k = "uninit" }
Materializations == { i \in UninitReads : hlog[i].read_length.v <= MaxUninitReadLen }

\* C18: the counter never decreases and changes only in a materialization; a
\* materialization hands out the counter's value before it as the new read address,
\* puts it into the registers that held the uninitialized address, and advances the
\* counter by the read length; the ranges [placeholder, placeholder + length) of two
\* materializations do not overlap; a read through an uninitialized address with a
\* length bound above 16 leaves counter, registers and read address as they were.
C18_CounterMonotonic ==
    /\ \A i \in 1..Len(hlog) :
          /\ hlog[i].base_after >= hlog[i].base_before
          /\ i \notin Materializations => hlog[i].base_after = hlog[i].base_before
          /\ hlog[i].base_before = (IF i = 1 THEN UninitReadBase0 ELSE hlog[i - 1].base_after)
    /\ uninit_read_base = (IF hlog = <<>> THEN UninitReadBase0
                           ELSE hlog[Len(hlog)].base_after)
    /\ \A i \in Materializations :
          /\ hlog[i].final = IntV(hlog[i].base_before)
          /\ hlog[i].base_after = hlog[i].base_before + hlog[i].read_length.v
          /\ \A r \in Regs :
                hlog[i].post.regs[r] = (IF hlog[i].pre.regs[r] = hlog[i].addr
                                        THEN IntV(hlog[i].base_before)
                                        ELSE hlog[i].pre.regs[r])
          /\ \E r \in Regs : hlog[i].pre.regs[r] = hlog[i].addr
    /\ \A i, j \in Materializations :
          i < j => hlog[i].final.v + hlog[i].read_length.v <= hlog[j].final.v
    /\ \A i \in UninitReads \ Materializations :
          /\ hlog[i].final = hlog[i].addr
          /\ hlog[i].post.regs = hlog[i].pre.regs
          /\ hlog[i].base_after = hlog[i].base_before

\* two materializations of different lengths and, between them, a read through an
\* uninitialized address whose length bound is above 16
C18_Witness ==
    /\ Len(hlog) = 3
    /\ 1 \in Materializations /\ 3 \in Materializations
    /\ 2 \in UninitReads \ Materializations
    /\ hlog[1].read_length.v = 1
    /\ hlog[3].read_length.v = MaxUninitReadLen

\* the read as it is handed to the hooks
Pending(i) ==
    [hlog[i].pre EXCEPT !.read_addr = hlog[i].addr, !.read_length = hlog[i].read_length]

\* both orders of the two hooks give the same state and the same counter
Commute(i) ==
    BssThenInit(prog.bss_regions, prog.arch, Pending(i), hlog[i].length, hlog[i].base_before)
      = InitThenBss(prog.bss_regions, prog.arch, Pending(i), hlog[i].length,
                    hlog[i].base_before)

\* C19 as stated: for every read, the .bss hook followed by the materialization hook
\* yields the same memory, registers, counter and read address as the opposite order.
C19_HooksCommute_AsStated == \A i \in Reads : Commute(i)

\* C19: in the order resolve() adds them at most one of the two hooks acts on a read;
\* the two orders yield the same memory, registers, counter and read address for
\* every read of a concrete or symbolic address, for every read with a length bound
\* above 16, and for a read through an uninitialized address whenever the placeholder
\* handed out lies in no .bss region.
C19_HooksCommute ==
    \A i \in Reads :
        LET bss == BssMemoryReadHook(prog.bss_regions, prog.arch, Pending(i), hlog[i].length)
            both == BssThenInit(prog.bss_regions, prog.arch, Pending(i), hlog[i].length,
                                hlog[i].base_before)
        IN /\ hlog[i].post = both.state
           /\ hlog[i].base_after = both.base
           /\ ~(bss # Pending(i) /\ both.state # bss)
           /\ (\/ i \notin Materializations
               \/ ~InBssRegions(prog.bss_regions, hlog[i].base_before)) => Commute(i)

\* a read at a .bss address never written, which the .bss hook acts on, and a read
\* through an uninitialized register, which the materialization hook acts on
C19_Witness ==
    /\ prog.bss_regions = <<BssRegion>>
    /\ \E i \in Materializations : TRUE
    /\ \E i \in Reads :
          /\ hlog[i].addr.k = "int"
          /\ hlog[i].post.mem # hlog[i].pre.mem

====
